---- MODULE Spec2Model ----
(***************************************************************************)
(* Model of the chainlit-bootstrap message router                          *)
(* (src/chainlit_bootstrap/handlers.py, src/chainlit_bootstrap/pii.py).    *)
(*                                                                         *)
(* A text is a sequence of one-character strings.  Every session has its   *)
(* own key-value store (cl.user_session) and at most one handler running;  *)
(* a handler is cut into the segments between its awaits, so that handlers *)
(* of different sessions interleave exactly where the event loop can       *)
(* switch.                                                                 *)
(***************************************************************************)
EXTENDS Integers, Sequences, FiniteSets, TLC

VARIABLES
    ENABLE_PRESIDIO_PII_CLEANING, \* pii.py: process-wide configuration flag
    user_session,                 \* cl.user_session of every session
    pc,                           \* position of the session's handler
    message,                      \* the inbound cl.Message being handled
    local,                        \* local variables of the running handler
    obs,                          \* what the running turn did (observation)
    carry,                        \* observation carried from the previous turn
    turns,                        \* number of message turns started so far
    call,                         \* a call of a pure function: argument, result
    analyzer                      \* pii.py: the recognition engine, if any

vars == <<ENABLE_PRESIDIO_PII_CLEANING, user_session, pc, message, local,
          obs, carry, turns, call, analyzer>>

----------------------------------------------------------------------------
(* Bounds *)

MaxTurns == 2
MaxSoloTurns == 3
MaxSources == 2
MaxText == 3

Sessions == {"s1", "s2"}

\* an optional value is a sequence of length 0 (None) or 1
None == <<>>
Some(x) == <<x>>

----------------------------------------------------------------------------
(* Python str operations on texts *)

UpperChars == <<"A","B","C","D","E","F","G","H","I","J","K","L","M",
                "N","O","P","Q","R","S","T","U","V","W","X","Y","Z">>
LowerChars == <<"a","b","c","d","e","f","g","h","i","j","k","l","m",
                "n","o","p","q","r","s","t","u","v","w","x","y","z">>

IsSpace(c) == c \in {" ", "\n", "\t"}

LowerChar(c) ==
    IF \E i \in 1..26 : UpperChars[i] = c
    THEN LowerChars[CHOOSE i \in 1..26 : UpperChars[i] = c]
    ELSE c

\* str.lower()
Lower(t) == [i \in 1..Len(t) |-> LowerChar(t[i])]

\* str.lstrip()
RECURSIVE LStrip(_)
LStrip(t) ==
    IF t # <<>> /\ IsSpace(Head(t)) THEN LStrip(Tail(t)) ELSE t

\* str.rstrip()
RECURSIVE RStrip(_)
RStrip(t) ==
    IF t # <<>> /\ IsSpace(t[Len(t)]) THEN RStrip(SubSeq(t, 1, Len(t) - 1)) ELSE t

\* str.strip()
Strip(t) == RStrip(LStrip(t))

\* str.startswith(p)
StartsWith(t, p) == Len(t) >= Len(p) /\ SubSeq(t, 1, Len(p)) = p

\* the first token of a text without leading whitespace
RECURSIVE FirstToken(_)
FirstToken(t) ==
    IF t = <<>> \/ IsSpace(Head(t)) THEN <<>>
    ELSE <<Head(t)>> \o FirstToken(Tail(t))

\* str.split(maxsplit=1): at most two parts, separated by the first
\* whitespace run; leading whitespace is skipped
SplitMax1(t) ==
    LET u    == LStrip(t)
        tok  == FirstToken(u)
        rest == LStrip(SubSeq(u, Len(tok) + 1, Len(u)))
    IN  IF u = <<>> THEN <<>>
        ELSE IF rest = <<>> THEN <<tok>>
        ELSE <<tok, rest>>

----------------------------------------------------------------------------
(* Texts, files and message elements the model draws its inputs from *)

T_empty    == <<>>
T_blank    == <<" ">>
T_question == <<"i","d"," ","7">>
T_search   == <<"/","s","e","a","r","c","h">>
T_searchq  == <<"/","S","e","a","r","c","h"," ","i","d"," ","7">>

Contents == {T_empty, T_blank, T_question, T_search, T_searchq}

\* replies of the language model and answers of the document chain
Answers == {<<"a","t"," ","7">>}

\* a byte that is not valid UTF-8
BadByte == "0xFF"

\* an uploaded file: its name and the bytes at file.path (None: unreadable)
F_doc   == [type |-> "File", name |-> "a.txt", data |-> Some(<<"a","b">>)]
F_doc2  == [type |-> "File", name |-> "b.txt", data |-> Some(<<"b">>)]
F_empty == [type |-> "File", name |-> "e.txt", data |-> Some(<<" ","\n">>)]
F_bin   == [type |-> "File", name |-> "x.bin", data |-> Some(<<"a",BadByte>>)]
F_gone  == [type |-> "File", name |-> "g.txt", data |-> None]
E_image == [type |-> "Image", name |-> "i.png", data |-> None]

ElementLists ==
    { <<>>, <<F_doc>>, <<F_empty>>, <<F_bin>>, <<E_image, F_gone, F_doc>> }

\* with a second document, for a session that uploads twice, and with an
\* element that is not a file
SoloElementLists == ElementLists \cup { <<F_doc2>>, <<E_image>> }

----------------------------------------------------------------------------
(* pii.py *)

\* the spans the recognition engine reports: maximal runs of digits
IsPii(c) == c \in {"0","1","2","3","4","5","6","7","8","9"}

Placeholder == <<"<","P","H","O","N","E","_","N","U","M","B","E","R",">">>

\* analyzer.analyze(text, language="en")
Analyze(text) ==
    { sp \in (1..Len(text)) \X (1..Len(text)) :
        /\ sp[1] <= sp[2]
        /\ \A i \in sp[1]..sp[2] : IsPii(text[i])
        /\ (sp[1] = 1 \/ ~IsPii(text[sp[1] - 1]))
        /\ (sp[2] = Len(text) \/ ~IsPii(text[sp[2] + 1])) }

\* anonymizer.anonymize(text, analyzer_results): every span becomes its tag
RECURSIVE Anonymize(_, _, _)
Anonymize(text, results, i) ==
    IF i > Len(text) THEN <<>>
    ELSE IF \E sp \in results : sp[1] = i
         THEN LET sp == CHOOSE x \in results : x[1] = i
              IN  Placeholder \o Anonymize(text, results, sp[2] + 1)
         ELSE <<text[i]>> \o Anonymize(text, results, i + 1)

\* _build_analyzer: no engine when cleaning is disabled; the engine
\* configured for en_core_web_sm, or, when that cannot be created, the
\* engine of the default configuration
_build_analyzer(configured) ==
    IF ~ENABLE_PRESIDIO_PII_CLEANING THEN None
    ELSE IF configured THEN Some("en_core_web_sm")
    ELSE Some("default")

\* anonymizer = AnonymizerEngine() if ENABLE_PRESIDIO_PII_CLEANING else None
anonymizer ==
    IF ENABLE_PRESIDIO_PII_CLEANING THEN Some("AnonymizerEngine") ELSE None

anonymize_text_unconditional(text) ==
    IF text = <<>> THEN text
    ELSE LET results == Analyze(text)
         IN  IF results = {} THEN text
             ELSE Anonymize(text, results, 1)

anonymize_text(text) ==
    IF ~ENABLE_PRESIDIO_PII_CLEANING THEN text
    ELSE IF text = <<>> THEN text
    ELSE IF analyzer = None \/ anonymizer = None THEN text
    ELSE LET results == Analyze(text)
         IN  IF results = {} THEN text
             ELSE Anonymize(text, results, 1)

----------------------------------------------------------------------------
(* handlers.py: the command classifier *)

SearchPrefixes == << <<"s","e","a","r","c","h",":">>,
                     <<"w","e","b",":">>,
                     <<"l","o","o","k","u","p",":">> >>

_extract_search_query(user_input) ==
    IF user_input = <<>> THEN None
    ELSE
      LET trimmed       == Strip(user_input)
          lower_trimmed == Lower(trimmed)
          parts         == SplitMax1(trimmed)
          command       == IF Len(parts) > 1 THEN Strip(parts[2]) ELSE <<>>
      IN  IF StartsWith(lower_trimmed, <<"/","s","e","a","r","c","h">>)
            THEN Some(command)
          ELSE IF StartsWith(lower_trimmed, <<"!","s","e","a","r","c","h">>)
            THEN Some(command)
          ELSE IF \E k \in 1..Len(SearchPrefixes) :
                     StartsWith(lower_trimmed, SearchPrefixes[k])
            THEN LET k == CHOOSE j \in 1..Len(SearchPrefixes) :
                            /\ StartsWith(lower_trimmed, SearchPrefixes[j])
                            /\ \A i \in 1..(j - 1) :
                                 ~StartsWith(lower_trimmed, SearchPrefixes[i])
                 IN  Some(Strip(SubSeq(trimmed, Len(SearchPrefixes[k]) + 1,
                                       Len(trimmed))))
          ELSE None

----------------------------------------------------------------------------
(* Session state and handler-local state *)

\* cl.user_session of a fresh session: no key is set
EmptyStore == [chain |-> None, file_name |-> None, general_history |-> None]

\* res, response and results hold what chain.acall, llm.ainvoke and
\* run_web_search returned or raised
NoLocal == [file |-> None, chain |-> None, sanitized_input |-> <<>>,
            query |-> <<>>, res |-> None, response |-> None,
            results |-> None]

\* the observation of a turn: messages sent (out), collaborators invoked,
\* the session store when the turn started (pre), how ingestion ended,
\* the strategy that handled the text, the chain that was asked, the history
\* handed to the model, the generation call that raised and how the handler
\* ended
NoObs == [out |-> <<>>, invoked |-> <<>>, pre |-> EmptyStore,
          ingest |-> "none", strategy |-> "none", chainUsed |-> None,
          llmInput |-> <<>>, error |-> "none", result |-> "none"]

NoCarry == [failed |-> FALSE, chain |-> None, general |-> FALSE]

\* no pure function is being called
NoCall == [arg |-> <<>>, ret |-> None, done |-> FALSE]

IngestFailures == {"empty", "decode", "read", "index"}

\* cl.Message(content=...)
Msg(kind, name, content, elements) ==
    [kind |-> kind, name |-> name, content |-> content, elements |-> elements]

Notice(kind, name) == Msg(kind, name, <<>>, <<>>)

\* cl.user_session.set(key, value) in the session of the running handler
SessionSetShared(us, s, key, value) ==
    [t \in Sessions |-> [us[t] EXCEPT ![key] = value]]

SessionSet(us, s, key, value) ==
    [us EXCEPT ![s] = [@ EXCEPT ![key] = value]]

\* cl.user_session.get(key)
SessionGet(us, s, key) == us[s][key]

Init ==
    /\ ENABLE_PRESIDIO_PII_CLEANING \in BOOLEAN
    /\ user_session = [s \in Sessions |-> EmptyStore]
    /\ pc = [s \in Sessions |-> "new"]
    /\ message = [s \in Sessions |-> None]
    /\ local = [s \in Sessions |-> NoLocal]
    /\ obs = [s \in Sessions |-> NoObs]
    /\ carry = [s \in Sessions |-> NoCarry]
    /\ turns = 0
    /\ call = NoCall
    /\ analyzer = _build_analyzer(TRUE)

----------------------------------------------------------------------------
(* handlers.py: on_chat_start, on_audio_chunk *)

\* the greeting on_chat_start sends
Greeting(us, s) ==
    IF SessionGet(us, s, "chain") # None
    THEN Notice("welcome_back",
                IF SessionGet(us, s, "file_name") # None
                THEN SessionGet(us, s, "file_name")[1] ELSE "document")
    ELSE Notice("welcome", "")

on_chat_start_resets(s) ==
    /\ pc[s] \in {"new", "idle"}
    /\ pc' = [pc EXCEPT ![s] = "idle"]
    /\ user_session' = [user_session EXCEPT ![s] = EmptyStore]
    /\ UNCHANGED <<analyzer, call, ENABLE_PRESIDIO_PII_CLEANING, message, local, obs, carry,
                   turns>>

on_chat_start(s) ==
    /\ pc[s] \in {"new", "idle"}
    /\ Greeting(user_session, s).kind \in {"welcome", "welcome_back"}
    /\ pc' = [pc EXCEPT ![s] = "idle"]
    /\ UNCHANGED <<analyzer, call, ENABLE_PRESIDIO_PII_CLEANING, user_session, message, local,
                   obs, carry, turns>>

\* the acknowledgement on_audio_chunk sends, if any
AudioAck(isStart, isEnd) ==
    IF isStart THEN Some(Notice("listening", ""))
    ELSE IF isEnd THEN Some(Notice("voice_received", ""))
    ELSE None

on_audio_chunk(s, isStart, isEnd) ==
    /\ pc[s] = "idle"
    /\ Len(AudioAck(isStart, isEnd)) <= 1
    /\ UNCHANGED <<analyzer, call, ENABLE_PRESIDIO_PII_CLEANING, user_session, pc, message,
                   local, obs, carry, turns>>

----------------------------------------------------------------------------
(* handlers.py: pieces of main and of its helpers *)

\* main: the first cl.File among message.elements, if any
LastFile(elements) ==
    IF \E i \in 1..Len(elements) : elements[i].type = "File"
    THEN Some(elements[CHOOSE i \in 1..Len(elements) :
                         /\ elements[i].type = "File"
                         /\ \A j \in (i + 1)..Len(elements) :
                              elements[j].type # "File"])
    ELSE None

FirstFile(elements) ==
    IF \E i \in 1..Len(elements) : elements[i].type = "File"
    THEN Some(elements[CHOOSE i \in 1..Len(elements) :
                         /\ elements[i].type = "File"
                         /\ \A j \in 1..(i - 1) : elements[j].type # "File"])
    ELSE None

\* _process_file: open(file.path, encoding="utf-8").read() and the emptiness
\* test: "ok", or the failure that is reported
ReadOutcome(file) ==
    IF file.data = None THEN "read"
    ELSE IF \E i \in 1..Len(file.data[1]) : file.data[1][i] = BadByte
         THEN "decode"
    ELSE IF Strip(file.data[1]) = <<>> THEN "empty"
    ELSE "ok"

\* _process_file: the error message of a read failure
ReadError(outcome, name) ==
    CASE outcome = "empty"  -> Notice("error_empty", name)
      [] outcome = "decode" -> Notice("error_decode", name)
      [] OTHER              -> Notice("error_read", name)

\* _process_file: the two writes that install the chain
InstallNameOnly(us, s, chain, name) ==
    SessionSet(us, s, "file_name", Some(name))

InstallChainOnly(us, s, chain, name) ==
    SessionSet(us, s, "chain", Some(chain))

InstallChain(us, s, chain, name) ==
    SessionSet(SessionSet(us, s, "chain", Some(chain)),
               s, "file_name", Some(name))

\* _get_general_history: the session's history, created on first use
_get_general_history_fresh(us, s) ==
    SessionSet(us, s, "general_history", Some(<<>>))

_get_general_history(us, s) ==
    IF SessionGet(us, s, "general_history") = None
    THEN SessionSet(us, s, "general_history", Some(<<>>))
    ELSE us

\* history.add_user_message / history.add_ai_message
AddMessage(us, s, role, content) ==
    SessionSet(us, s, "general_history",
               Some(SessionGet(us, s, "general_history")[1]
                    \o <<[role |-> role, content |-> content]>>))

\* main: which strategy handles the text, given the classifier's result and
\* the session's chain
StrategyChainFirst(raw_search_query, chain) ==
    IF chain # None THEN "doc"
    ELSE IF raw_search_query # None THEN "search"
    ELSE "general"

StrategyGeneralFirst(raw_search_query, chain) ==
    IF chain = None THEN "general"
    ELSE IF raw_search_query # None THEN "search"
    ELSE "doc"

Strategy(raw_search_query, chain) ==
    IF raw_search_query # None THEN "search"
    ELSE IF chain = None THEN "general"
    ELSE "doc"

\* main: the early return after an upload without accompanying text
NoTextNever(content) == FALSE

NoText(content) == content = <<>> \/ Strip(content) = <<>>

Digits == <<"0","1","2","3","4","5","6","7","8","9">>

\* f"source_{source_idx}"
SourceNameOneBased(source_idx) ==
    <<"s","o","u","r","c","e","_">> \o <<Digits[source_idx + 2]>>

SourceName(source_idx) == <<"s","o","u","r","c","e","_">> \o <<Digits[source_idx + 1]>>

\* ", ".join(source_names)
RECURSIVE Join(_)
Join(names) ==
    IF names = <<>> THEN <<>>
    ELSE IF Len(names) = 1 THEN names[1]
    ELSE names[1] \o <<",", " ">> \o Join(Tail(names))

\* main: the answer text with its sources suffix
AnswerText(sanitized_answer, n) ==
    LET source_names == [i \in 1..n |-> SourceName(i - 1)]
    IN  IF n > 0
        THEN sanitized_answer \o
             (IF source_names # <<>>
              THEN <<"\n","S","o","u","r","c","e","s",":"," ">> \o Join(source_names)
              ELSE <<"\n","N","o"," ","s","o","u","r","c","e","s"," ","f","o","u","n","d">>)
        ELSE sanitized_answer

\* main: sanitized_input, the text handed to the chain and to general chat
SanitizedInputRaw(user_content) == user_content

SanitizedInput(user_content) ==
    IF user_content # <<>> THEN anonymize_text(user_content) ELSE <<>>

\* _respond_with_general_chat: the test for a text without content
NoInputEmptyOnly(user_input) == user_input = <<>>

NoInput(user_input) == Strip(user_input) = <<>>

\* _respond_with_web_search: the test for a search command without a query
NoQueryNever(query) == FALSE

NoQuery(query) == query = <<>>

\* outcomes of run_web_search: an exception, or a list of results
R_full == [title |-> Some(<<"t">>), url |-> Some(<<"u">>),
           content |-> <<"n"," ","7">>]
R_bare == [title |-> None, url |-> None, content |-> <<>>]

SearchOutcomes ==
    { [exc |-> "TavilyNotConfiguredError", results |-> <<>>],
      [exc |-> "RuntimeError", results |-> <<>>],
      [exc |-> "none", results |-> <<>>],
      [exc |-> "none", results |-> <<R_full, R_bare>>] }

\* _respond_with_web_search: one rendered entry per result
FormatResults(results) ==
    [i \in 1..Len(results) |->
        [idx     |-> i,
         title   |-> IF results[i].title # None THEN results[i].title[1]
                     ELSE <<"U","n","t","i","t","l","e","d"," ","r","e","s","u","l","t">>,
         url     |-> IF results[i].url # None THEN results[i].url[1]
                     ELSE <<>>,
         snippet |-> IF results[i].content # <<>>
                     THEN anonymize_text(results[i].content) ELSE <<>>]]

\* _respond_with_web_search: the final content of the progress message
SearchResponseGenericFirst(query, outcome) ==
    IF outcome.exc # "none"
      THEN Msg("search_failed", outcome.exc, <<>>, <<>>)
    ELSE IF outcome.results = <<>>
      THEN Msg("search_no_results", "", query, <<>>)
    ELSE Msg("search_results", "", <<>>, FormatResults(outcome.results))

SearchResponse(query, outcome) ==
    IF outcome.exc = "TavilyNotConfiguredError"
      THEN Msg("search_not_configured", "", <<>>, <<>>)
    ELSE IF outcome.exc # "none"
      THEN Msg("search_failed", outcome.exc, <<>>, <<>>)
    ELSE IF outcome.results = <<>>
      THEN Msg("search_no_results", "", query, <<>>)
    ELSE Msg("search_results", "", <<>>, FormatResults(outcome.results))

----------------------------------------------------------------------------
(* handlers.py: main, one action per segment between two awaits *)

Sent(o, m) == [o EXCEPT !.out = @ \o <<m>>]

Invoked(o, what) == [o EXCEPT !.invoked = @ \o <<what>>]

Returned(o) == [o EXCEPT !.result = "returned"]

Raised(o) == [o EXCEPT !.result = "raised"]

\* an exception of a generation call passes through the handler
Failed(o, call_name) == [Raised(o) EXCEPT !.error = call_name]

\* main from the classifier on, up to the first await of the chosen strategy:
\* _respond_with_web_search up to run_web_search, _respond_with_general_chat
\* up to llm.ainvoke, or the call of chain.acall.  o is the turn's observation
\* so far.
Route(s, content, o) ==
    LET user_content     == content
        sanitized_input  == SanitizedInput(user_content)
        raw_search_query == _extract_search_query(user_content)
        chain            == SessionGet(user_session, s, "chain")
        strategy         == Strategy(raw_search_query, chain)
        o1 == [Invoked(o, "classifier") EXCEPT !.strategy = strategy]
    IN
    CASE strategy = "search" ->
           /\ UNCHANGED user_session
           /\ IF NoQuery(raw_search_query[1])
              THEN /\ obs' = [obs EXCEPT ![s] =
                                Returned(Sent(o1, Notice("search_usage", "")))]
                   /\ pc' = [pc EXCEPT ![s] = "done"]
                   /\ local' = [local EXCEPT ![s] = NoLocal]
              ELSE /\ obs' = [obs EXCEPT ![s] =
                                Invoked(Sent(o1, Msg("search_progress", "",
                                                     raw_search_query[1], <<>>)),
                                        "search")]
                   /\ pc' = [pc EXCEPT ![s] = "ws_search"]
                   /\ local' = [local EXCEPT ![s] =
                                  [NoLocal EXCEPT !.query = raw_search_query[1]]]
      [] strategy = "general" ->
           /\ local' = [local EXCEPT ![s] =
                          [NoLocal EXCEPT !.sanitized_input = sanitized_input]]
           /\ IF NoInput(sanitized_input)
              THEN /\ obs' = [obs EXCEPT ![s] =
                                Returned(Sent(o1, Notice("chat_prompt", "")))]
                   /\ pc' = [pc EXCEPT ![s] = "done"]
                   /\ UNCHANGED user_session
              ELSE LET us == AddMessage(_get_general_history(user_session, s),
                                        s, "human", sanitized_input)
                   IN  /\ user_session' = us
                       /\ obs' = [obs EXCEPT ![s] =
                                    [Invoked(o1, "llm") EXCEPT !.llmInput =
                                       SessionGet(us, s, "general_history")[1]]]
                       /\ pc' = [pc EXCEPT ![s] = "gc_llm"]
      [] OTHER ->
           /\ UNCHANGED user_session
           /\ local' = [local EXCEPT ![s] =
                          [NoLocal EXCEPT !.sanitized_input = sanitized_input]]
           /\ obs' = [obs EXCEPT ![s] =
                        [Invoked(o1, "chain") EXCEPT !.chainUsed = chain]]
           /\ pc' = [pc EXCEPT ![s] = "dc_call"]

\* main is called with a message: the attachment check, then either the
\* processing notice of _process_file or the routing of the text
main(s, content, elements) ==
    /\ pc[s] = "idle"
    /\ turns' = turns + 1
    /\ message' = [message EXCEPT ![s] =
                     Some([content |-> content, elements |-> elements])]
    /\ LET o0 == [NoObs EXCEPT !.pre = user_session[s],
                               !.result = "running",
                               !.invoked = <<"attachment">>]
           file == FirstFile(elements)
       IN  IF file # None
           THEN /\ obs' = [obs EXCEPT ![s] =
                             Invoked(Sent(o0, Notice("processing", file[1].name)),
                                     "ingest")]
                /\ local' = [local EXCEPT ![s] = [NoLocal EXCEPT !.file = file]]
                /\ pc' = [pc EXCEPT ![s] = "pf_read"]
                /\ UNCHANGED user_session
           ELSE Route(s, content, o0)
    /\ UNCHANGED <<analyzer, call, ENABLE_PRESIDIO_PII_CLEANING, carry>>

ProcessFileReadResets(s) ==
    /\ pc[s] = "pf_read"
    /\ LET file    == local[s].file[1]
           outcome == ReadOutcome(file)
       IN  IF outcome = "ok"
           THEN /\ pc' = [pc EXCEPT ![s] = "pf_index"]
                /\ UNCHANGED <<obs, user_session>>
           ELSE /\ pc' = [pc EXCEPT ![s] = "pf_failed"]
                /\ obs' = [obs EXCEPT ![s] =
                             [Sent(@, ReadError(outcome, file.name))
                                EXCEPT !.ingest = outcome]]
                /\ user_session' =
                     SessionSet(SessionSet(user_session, s, "chain", None),
                                s, "file_name", None)
    /\ UNCHANGED <<analyzer, call, ENABLE_PRESIDIO_PII_CLEANING, message, local, carry, turns>>

\* _process_file: read the file; on a read failure send the error message
ProcessFileRead(s) ==
    /\ pc[s] = "pf_read"
    /\ LET file    == local[s].file[1]
           outcome == ReadOutcome(file)
       IN  IF outcome = "ok"
           THEN /\ pc' = [pc EXCEPT ![s] = "pf_index"]
                /\ UNCHANGED obs
           ELSE /\ pc' = [pc EXCEPT ![s] = "pf_failed"]
                /\ obs' = [obs EXCEPT ![s] =
                             [Sent(@, ReadError(outcome, file.name))
                                EXCEPT !.ingest = outcome]]
    /\ UNCHANGED <<analyzer, call, ENABLE_PRESIDIO_PII_CLEANING, user_session, message, local,
                   carry, turns>>

\* _process_file: Chroma.from_texts and the chain construction return (built)
\* or raise; on success the progress message is updated
ProcessFileIndex(s, built) ==
    /\ pc[s] = "pf_index"
    /\ IF built
       THEN /\ local' = [local EXCEPT ![s].chain =
                           Some([doc |-> local[s].file[1].name, gen |-> turns])]
            /\ obs' = [obs EXCEPT ![s].out[1].kind = "processing_done"]
            /\ pc' = [pc EXCEPT ![s] = "pf_update"]
       ELSE /\ obs' = [obs EXCEPT ![s] = [Raised(@) EXCEPT !.ingest = "index"]]
            /\ pc' = [pc EXCEPT ![s] = "done"]
            /\ UNCHANGED local
    /\ UNCHANGED <<analyzer, call, ENABLE_PRESIDIO_PII_CLEANING, user_session, message, carry,
                   turns>>

\* _process_file installs the chain and returns True; main sends the success
\* notice
ProcessFileInstall(s) ==
    /\ pc[s] = "pf_update"
    /\ user_session' = InstallChain(user_session, s, local[s].chain[1],
                                    local[s].file[1].name)
    /\ obs' = [obs EXCEPT ![s] =
                 [Sent(@, Notice("ingest_ok", "")) EXCEPT !.ingest = "ok"]]
    /\ pc' = [pc EXCEPT ![s] = "notice"]
    /\ UNCHANGED <<analyzer, call, ENABLE_PRESIDIO_PII_CLEANING, message, local, carry, turns>>

\* _process_file returns False; main sends the failure notice
ProcessFileFailed(s) ==
    /\ pc[s] = "pf_failed"
    /\ obs' = [obs EXCEPT ![s] = Sent(@, Notice("ingest_failed", ""))]
    /\ pc' = [pc EXCEPT ![s] = "notice"]
    /\ UNCHANGED <<analyzer, call, ENABLE_PRESIDIO_PII_CLEANING, user_session, message, local,
                   carry, turns>>

\* main after the ingestion notice: return if no text came with the file,
\* otherwise route the text
AfterIngest(s) ==
    /\ pc[s] = "notice"
    /\ IF NoText(message[s][1].content)
       THEN /\ obs' = [obs EXCEPT ![s] = Returned(@)]
            /\ pc' = [pc EXCEPT ![s] = "done"]
            /\ local' = [local EXCEPT ![s] = NoLocal]
            /\ UNCHANGED user_session
       ELSE Route(s, message[s][1].content, obs[s])
    /\ UNCHANGED <<analyzer, call, ENABLE_PRESIDIO_PII_CLEANING, message, carry, turns>>

\* _respond_with_web_search: run_web_search returns or raises, and the
\* progress message is updated
WebSearchReturn(s, outcome) ==
    /\ pc[s] = "ws_search"
    /\ obs' = [obs EXCEPT ![s] =
                 Returned([@ EXCEPT !.out[Len(obs[s].out)] =
                              SearchResponse(local[s].query, outcome)])]
    /\ local' = [local EXCEPT ![s].results = Some(outcome)]
    /\ pc' = [pc EXCEPT ![s] = "done"]
    /\ UNCHANGED <<analyzer, call, ENABLE_PRESIDIO_PII_CLEANING, user_session, message, carry,
                   turns>>

\* _respond_with_general_chat: llm.ainvoke returns a reply (Some) or raises
\* (None)
GeneralChatReturn(s, response) ==
    /\ pc[s] = "gc_llm"
    /\ IF response # None
       THEN LET sanitized_answer == anonymize_text(response[1])
            IN  /\ user_session' = AddMessage(user_session, s, "ai",
                                              sanitized_answer)
                /\ obs' = [obs EXCEPT ![s] =
                             Returned(Sent(@, Msg("chat_answer", "",
                                                  sanitized_answer, <<>>)))]
       ELSE /\ obs' = [obs EXCEPT ![s] = Failed(@, "llm")]
            /\ UNCHANGED user_session
    /\ local' = [local EXCEPT ![s].response = response]
    /\ pc' = [pc EXCEPT ![s] = "done"]
    /\ UNCHANGED <<analyzer, call, ENABLE_PRESIDIO_PII_CLEANING, message, carry, turns>>

\* main: chain.acall returns an answer with n source documents (Some) or
\* raises (None)
ChainReturnMasked(s, res) ==
    /\ pc[s] = "dc_call"
    /\ IF res # None
       THEN LET sanitized_answer == anonymize_text(res[1].answer)
                n == res[1].source_documents
            IN  obs' = [obs EXCEPT ![s] =
                          Returned(Sent(@, Msg("doc_answer", "",
                                               AnswerText(sanitized_answer, n),
                                               [i \in 1..n |-> SourceName(i - 1)])))]
       ELSE obs' = [obs EXCEPT ![s] =
                      [Returned(Sent(@, Notice("doc_answer", "")))
                         EXCEPT !.error = "chain"]]
    /\ local' = [local EXCEPT ![s].res = res]
    /\ pc' = [pc EXCEPT ![s] = "done"]
    /\ UNCHANGED <<analyzer, call, ENABLE_PRESIDIO_PII_CLEANING, user_session,
                   message, carry, turns>>

ChainReturn(s, res) ==
    /\ pc[s] = "dc_call"
    /\ IF res # None
       THEN LET sanitized_answer == anonymize_text(res[1].answer)
                n == res[1].source_documents
            IN  obs' = [obs EXCEPT ![s] =
                          Returned(Sent(@, Msg("doc_answer", "",
                                               AnswerText(sanitized_answer, n),
                                               [i \in 1..n |-> SourceName(i - 1)])))]
       ELSE obs' = [obs EXCEPT ![s] = Failed(@, "chain")]
    /\ local' = [local EXCEPT ![s].res = res]
    /\ pc' = [pc EXCEPT ![s] = "done"]
    /\ UNCHANGED <<analyzer, call, ENABLE_PRESIDIO_PII_CLEANING, user_session, message, carry,
                   turns>>

\* the positions at which a handler is suspended on an await
Suspended == {"pf_read", "pf_index", "pf_update", "pf_failed", "notice",
              "ws_search", "gc_llm", "dc_call"}

\* the turn's task is cancelled (the session disconnected): CancelledError is
\* raised at the await the handler is suspended on; no except clause of the
\* handlers catches it, so the handler ends there
Cancel(s) ==
    /\ pc[s] \in Suspended
    /\ obs' = [obs EXCEPT ![s].result = "cancelled"]
    /\ pc' = [pc EXCEPT ![s] = "done"]
    /\ UNCHANGED <<analyzer, call, ENABLE_PRESIDIO_PII_CLEANING, user_session, message, local,
                   carry, turns>>

\* the handler has returned or raised: the framework is ready for the
\* session's next event
Return(s) ==
    /\ pc[s] = "done"
    /\ pc' = [pc EXCEPT ![s] = "idle"]
    /\ carry' = [carry EXCEPT ![s] =
                   [failed  |-> obs[s].ingest \in IngestFailures,
                    chain   |-> IF obs[s].ingest \in IngestFailures
                                THEN obs[s].pre.chain ELSE None,
                    general |-> carry[s].general \/ obs[s].llmInput # <<>>]]
    /\ message' = [message EXCEPT ![s] = None]
    /\ local' = [local EXCEPT ![s] = NoLocal]
    /\ obs' = [obs EXCEPT ![s] = NoObs]
    /\ UNCHANGED <<analyzer, call, ENABLE_PRESIDIO_PII_CLEANING, user_session, turns>>

ChainResults ==
    { Some([answer |-> a, source_documents |-> n]) :
        a \in Answers, n \in 0..MaxSources } \cup {None}

\* every step of a session's handlers but the arrival of a new message
SessionStep(s) ==
    \/ on_chat_start(s)
    \/ \E isStart, isEnd \in BOOLEAN : on_audio_chunk(s, isStart, isEnd)
    \/ ProcessFileRead(s)
    \/ \E built \in BOOLEAN : ProcessFileIndex(s, built)
    \/ ProcessFileInstall(s)
    \/ ProcessFileFailed(s)
    \/ AfterIngest(s)
    \/ \E outcome \in SearchOutcomes : WebSearchReturn(s, outcome)
    \/ \E response \in {Some(a) : a \in Answers} \cup {None} :
          GeneralChatReturn(s, response)
    \/ \E res \in ChainResults : ChainReturn(s, res)
    \/ Return(s)

\* the framework delivers a message to a session whose handler is not running
Deliver(s, limit, uploads) ==
    /\ turns < limit
    /\ \E content \in Contents, elements \in uploads :
          main(s, content, elements)

\* two sessions, their handlers interleaved at the awaits
Next == \E s \in Sessions : Deliver(s, MaxTurns, ElementLists) \/ SessionStep(s)

Spec == Init /\ [][Next]_vars

\* one session alone, for more turns, whose turn can be cancelled
Solo == "s1"

NextSolo ==
    \/ Deliver(Solo, MaxSoloTurns, SoloElementLists)
    \/ SessionStep(Solo)
    \/ Cancel(Solo)

SpecSolo == Init /\ [][NextSolo]_vars

----------------------------------------------------------------------------
(* The classifier alone: _extract_search_query applied to one input *)

\* inputs: optional leading space, a head, a separator, a tail
QueryLeads == { <<>>, <<" ">> }

QueryHeads ==
    { <<>>,
      <<"/","s","e","a","r","c","h">>,
      <<"/","S","e","a","r","c","h">>,
      <<"!","s","e","a","r","c","h">>,
      <<"!","S","E","A","R","C","H">>,
      <<"s","e","a","r","c","h",":">>,
      <<"W","e","b",":">>,
      <<"l","o","o","k","u","p",":">>,
      <<"/","s","e","a","r","c","h","x">>,
      <<"!","s","e","a","r","c","h","e","s">>,
      <<"/","s","e","a","r","c","h",":">>,
      <<"s","e","a","r","c","h">>,
      <<"/","s","e","a">>,
      <<"h","i">> }

QuerySeparators == { <<>>, <<" ">>, <<" ","\t">> }

QueryTails == { <<>>, <<"q">>, <<"a"," ","b">>, <<"q"," ">> }

QueryInputs ==
    { lead \o head \o sep \o tail :
        lead \in QueryLeads, head \in QueryHeads,
        sep \in QuerySeparators, tail \in QueryTails }

InitQuery ==
    /\ ENABLE_PRESIDIO_PII_CLEANING \in BOOLEAN
    /\ user_session = [s \in Sessions |-> EmptyStore]
    /\ pc = [s \in Sessions |-> "new"]
    /\ message = [s \in Sessions |-> None]
    /\ local = [s \in Sessions |-> NoLocal]
    /\ obs = [s \in Sessions |-> NoObs]
    /\ carry = [s \in Sessions |-> NoCarry]
    /\ turns = 0
    /\ call \in { [NoCall EXCEPT !.arg = user_input] :
                    user_input \in QueryInputs }
    /\ analyzer = _build_analyzer(TRUE)

\* raw_search_query = _extract_search_query(user_content)
ExtractSearchQuery ==
    /\ ~call.done
    /\ call' = [call EXCEPT !.ret = _extract_search_query(call.arg),
                            !.done = TRUE]
    /\ UNCHANGED <<analyzer, ENABLE_PRESIDIO_PII_CLEANING, user_session, pc,
                   message, local, obs, carry, turns>>

SpecQuery == InitQuery /\ [][ExtractSearchQuery]_vars

----------------------------------------------------------------------------
(* The filter alone: pii.py is imported, then anonymize_text is applied to  *)
(* one text                                                                 *)

PiiChars == {"a", " ", "7", "<"}

PiiTexts == UNION { [1..n -> PiiChars] : n \in 0..MaxText }

\* the module is imported with cleaning enabled or not, and the configured
\* engine can be created or not
InitPii ==
    /\ ENABLE_PRESIDIO_PII_CLEANING \in BOOLEAN
    /\ user_session = [s \in Sessions |-> EmptyStore]
    /\ pc = [s \in Sessions |-> "new"]
    /\ message = [s \in Sessions |-> None]
    /\ local = [s \in Sessions |-> NoLocal]
    /\ obs = [s \in Sessions |-> NoObs]
    /\ carry = [s \in Sessions |-> NoCarry]
    /\ turns = 0
    /\ call \in { [NoCall EXCEPT !.arg = text] : text \in PiiTexts }
    /\ \E configured \in BOOLEAN : analyzer = _build_analyzer(configured)

\* anonymize_text(text)
AnonymizeText ==
    /\ ~call.done
    /\ call' = [call EXCEPT !.ret = Some(anonymize_text(call.arg)),
                            !.done = TRUE]
    /\ UNCHANGED <<analyzer, ENABLE_PRESIDIO_PII_CLEANING, user_session, pc,
                   message, local, obs, carry, turns>>

SpecPii == InitPii /\ [][AnonymizeText]_vars

----------------------------------------------------------------------------
(* The two ingestion paths alone: _process_file of chainlit_bootstrap and   *)
(* on_chat_start of learn_chainlit read one uploaded file                   *)

FileBytes == {"a", " ", BadByte}

UploadedFiles ==
    { [type |-> "File", name |-> "f.txt", data |-> d] :
        d \in {None} \cup
              { Some(b) : b \in UNION { [1..n -> FileBytes] : n \in 0..MaxText } } }

Apps == {"chainlit_bootstrap", "learn_chainlit"}

\* learn_chainlit on_chat_start: open(file.path, encoding="utf-8").read();
\* only UnicodeDecodeError is caught, any other exception leaves the handler
LearnReadOutcome(file) ==
    IF file.data = None THEN "raised"
    ELSE IF \E i \in 1..Len(file.data[1]) : file.data[1][i] = BadByte
         THEN "decode"
    ELSE "ok"

InitIngest ==
    /\ ENABLE_PRESIDIO_PII_CLEANING \in BOOLEAN
    /\ user_session = [s \in Sessions |-> EmptyStore]
    /\ pc = [s \in Sessions |-> "new"]
    /\ message = [s \in Sessions |-> None]
    /\ local = [s \in Sessions |-> NoLocal]
    /\ obs = [s \in Sessions |-> NoObs]
    /\ carry = [s \in Sessions |-> NoCarry]
    /\ turns = 0
    /\ call \in { [NoCall EXCEPT !.arg = [app |-> app, file |-> file]] :
                    app \in Apps, file \in UploadedFiles }
    /\ analyzer = _build_analyzer(TRUE)

\* chainlit_bootstrap _process_file up to text_splitter.split_text: the
\* result is "ok" when the splitter is reached
ProcessFileReads ==
    /\ ~call.done
    /\ call.arg.app = "chainlit_bootstrap"
    /\ call' = [call EXCEPT !.ret = Some(ReadOutcome(call.arg.file)),
                            !.done = TRUE]
    /\ UNCHANGED <<analyzer, ENABLE_PRESIDIO_PII_CLEANING, user_session, pc,
                   message, local, obs, carry, turns>>

\* learn_chainlit on_chat_start up to text_splitter.split_text
LearnChatStartReads ==
    /\ ~call.done
    /\ call.arg.app = "learn_chainlit"
    /\ call' = [call EXCEPT !.ret = Some(LearnReadOutcome(call.arg.file)),
                            !.done = TRUE]
    /\ UNCHANGED <<analyzer, ENABLE_PRESIDIO_PII_CLEANING, user_session, pc,
                   message, local, obs, carry, turns>>

NextIngest == ProcessFileReads \/ LearnChatStartReads

SpecIngest == InitIngest /\ [][NextIngest]_vars

----------------------------------------------------------------------------
(* Vocabulary of the properties *)

Running(s) == message[s] # None

Content(s) == message[s][1].content

HasFile(s) ==
    \E i \in 1..Len(message[s][1].elements) :
        message[s][1].elements[i].type = "File"

Blank(text) == \A i \in 1..Len(text) : text[i] \in {" ", "\n", "\t"}

Did(s, what) == \E i \in 1..Len(obs[s].invoked) : obs[s].invoked[i] = what

SentKind(s, kinds) == \E i \in 1..Len(obs[s].out) : obs[s].out[i].kind \in kinds

SearchFinal == {"search_usage", "search_not_configured", "search_failed",
                "search_no_results", "search_results"}

IngestKinds == {"processing", "processing_done", "error_empty", "error_decode",
                "error_read", "ingest_ok", "ingest_failed"}

\* the strategies a turn has entered, judged by what it called and sent
BySearch(s)  == Did(s, "search") \/ SentKind(s, SearchFinal \cup {"search_progress"})
ByChain(s)   == Did(s, "chain") \/ SentKind(s, {"doc_answer"})
ByGeneral(s) == Did(s, "llm") \/ SentKind(s, {"chat_prompt", "chat_answer"})

IsSearch(text) == _extract_search_query(text) # None

History(store) ==
    IF store.general_history = None THEN <<>> ELSE store.general_history[1]

IsPrefix(a, b) == Len(a) <= Len(b) /\ SubSeq(b, 1, Len(a)) = a

----------------------------------------------------------------------------
(* C1: a message whose text is a search request (the empty query included)  *)
(* is handled by the web-search path only, whatever the session state: the  *)
(* document chain and the language model are not invoked, nothing but       *)
(* ingestion notices and the search message is sent, and once the search    *)
(* response is out the handler has ended.                                   *)
C1_SearchOnlyWebSearch ==
    \A s \in Sessions :
        (Running(s) /\ IsSearch(Content(s))) =>
            /\ ~ByChain(s) /\ ~ByGeneral(s)
            /\ obs[s].chainUsed = None /\ obs[s].llmInput = <<>>
            /\ Did(s, "classifier") => BySearch(s)
            /\ \A i \in 1..Len(obs[s].out) :
                 /\ obs[s].out[i].kind \in
                      IngestKinds \cup SearchFinal \cup {"search_progress"}
                 /\ obs[s].out[i].kind \in SearchFinal =>
                      i = Len(obs[s].out) /\ pc[s] = "done"

\* a search request was answered by a search result in a session that holds
\* a document chain installed in an earlier turn
C1_Witness ==
    \E s \in Sessions :
        /\ Running(s) /\ IsSearch(Content(s)) /\ pc[s] = "done"
        /\ obs[s].pre.chain # None
        /\ SentKind(s, {"search_results"})

----------------------------------------------------------------------------
(* C2: a turn that reaches routing is handled by exactly one of web search, *)
(* document chain and general chat, in that order of precedence: web search *)
(* iff the text is a search request, the chain only if it is not and a      *)
(* chain is present, general chat only if it is not and no chain is         *)
(* present; the attachment check comes before the classifier.               *)
C2_OneStrategyInOrder ==
    \A s \in Sessions :
        Did(s, "classifier") =>
            /\ obs[s].invoked[1] = "attachment"
            /\ BySearch(s) \/ ByChain(s) \/ ByGeneral(s)
            /\ ~(BySearch(s) /\ ByChain(s))
            /\ ~(BySearch(s) /\ ByGeneral(s))
            /\ ~(ByChain(s) /\ ByGeneral(s))
            /\ BySearch(s) <=> IsSearch(Content(s))
            /\ ByChain(s) =>
                 ~IsSearch(Content(s)) /\ user_session[s].chain # None
            /\ ByGeneral(s) =>
                 ~IsSearch(Content(s)) /\ user_session[s].chain = None

\* the chain answered a text that came with an upload
C2_Witness ==
    \E s \in Sessions :
        /\ pc[s] = "done" /\ Running(s) /\ HasFile(s)
        /\ SentKind(s, {"doc_answer"})

----------------------------------------------------------------------------
(* C3: while and after a turn whose ingestion failed (empty file, undecod-  *)
(* able bytes, another read failure, or a failure building the index or     *)
(* chain) the session's chain and file name are those of before the turn;   *)
(* a non-search question in the following turn goes to that chain, or to    *)
(* general chat if there was none.                                          *)
C3_FailedIngestKeepsState ==
    \A s \in Sessions :
        /\ obs[s].ingest \in IngestFailures =>
             /\ user_session[s].chain = obs[s].pre.chain
             /\ user_session[s].file_name = obs[s].pre.file_name
        /\ (carry[s].failed /\ pc[s] = "idle") =>
             user_session[s].chain = carry[s].chain
        /\ (carry[s].failed /\ Running(s) /\ ~HasFile(s)
              /\ ~IsSearch(Content(s)) /\ Did(s, "classifier")) =>
             IF carry[s].chain # None
             THEN ByChain(s) /\ obs[s].chainUsed = carry[s].chain
             ELSE ByGeneral(s)

\* after a chain was installed, an upload failed, and the next question was
\* answered by the chain
C3_Witness ==
    \E s \in Sessions :
        /\ carry[s].failed /\ carry[s].chain # None
        /\ pc[s] = "done" /\ ~HasFile(s)
        /\ SentKind(s, {"doc_answer"})

----------------------------------------------------------------------------
(* C4: every ingestion failure is reported and none is fatal: when the      *)
(* handler of a turn whose ingestion failed has ended without having been   *)
(* cancelled, it has returned normally and has sent a failure notice.       *)
C4_FailureReportedNotFatal ==
    \A s \in Sessions :
        (/\ pc[s] = "done"
         /\ obs[s].ingest \in IngestFailures
         /\ obs[s].result # "cancelled") =>
            /\ obs[s].result = "returned"
            /\ SentKind(s, {"error_empty", "error_decode", "error_read",
                            "ingest_failed"})

----------------------------------------------------------------------------
(* C5: in a turn with a file element and empty or whitespace-only text,     *)
(* nothing happens beyond ingestion: the classifier, the search adapter,    *)
(* the chain and the model are not invoked, only ingestion notices are      *)
(* sent, and a handler that returns has sent the ingestion result notice    *)
(* last.                                                                    *)
C5_UploadWithoutTextEnds ==
    \A s \in Sessions :
        (Running(s) /\ HasFile(s) /\ Blank(Content(s))) =>
            /\ ~Did(s, "classifier")
            /\ ~BySearch(s) /\ ~ByChain(s) /\ ~ByGeneral(s)
            /\ \A i \in 1..Len(obs[s].out) : obs[s].out[i].kind \in IngestKinds
            /\ \A i \in 1..Len(obs[s].out) :
                 obs[s].out[i].kind \in {"ingest_ok", "ingest_failed"} =>
                     i = Len(obs[s].out) /\ pc[s] \in {"notice", "done"}
            /\ obs[s].result = "returned" =>
                 obs[s].out[Len(obs[s].out)].kind \in {"ingest_ok", "ingest_failed"}

\* an upload with whitespace-only text was ingested and the handler returned
C5_Witness ==
    \E s \in Sessions :
        /\ Running(s) /\ HasFile(s) /\ Content(s) = T_blank
        /\ pc[s] = "done" /\ obs[s].ingest = "ok"
        /\ obs[s].result = "returned"

----------------------------------------------------------------------------
(* C6: in a turn with a file element and non-blank text that is not         *)
(* cancelled, once the ingestion result notice is out the text is routed:   *)
(* a search command goes to web                                             *)
(* search, and any other text, if ingestion succeeded, is put to the chain  *)
(* this turn installed, not to the chain of before the turn and not to      *)
(* general chat.                                                            *)
C6_UploadWithTextRoutes ==
    \A s \in Sessions :
        (/\ Running(s) /\ HasFile(s) /\ ~Blank(Content(s))
         /\ SentKind(s, {"ingest_ok", "ingest_failed"})
         /\ pc[s] # "notice"
         /\ obs[s].result # "cancelled") =>
            /\ Did(s, "classifier")
            /\ IsSearch(Content(s)) => BySearch(s)
            /\ (~IsSearch(Content(s)) /\ obs[s].ingest = "ok") =>
                 /\ ByChain(s) /\ ~ByGeneral(s)
                 /\ obs[s].chainUsed # None
                 /\ obs[s].chainUsed # obs[s].pre.chain
                 /\ obs[s].chainUsed = user_session[s].chain
                 /\ obs[s].chainUsed[1].doc = FirstFile(message[s][1].elements)[1].name
                 /\ obs[s].chainUsed[1].gen = turns

\* a session that held a chain uploaded another file with a question, and the
\* chain answered
C6_Witness ==
    \E s \in Sessions :
        /\ Running(s) /\ HasFile(s) /\ Content(s) = T_question
        /\ obs[s].pre.chain # None /\ obs[s].ingest = "ok"
        /\ pc[s] = "done" /\ SentKind(s, {"doc_answer"})

----------------------------------------------------------------------------
(* C7: a turn sends exactly one response, or, with a file attachment, one   *)
(* ingestion result notice and one answer if text came with the file (the   *)
(* processing notice not counted); no turn sends more.                      *)
Responses(s) ==
    Cardinality({i \in 1..Len(obs[s].out) :
                   obs[s].out[i].kind \notin {"processing", "processing_done"}})

Allowed(s) ==
    IF HasFile(s) THEN (IF Blank(Content(s)) THEN 1 ELSE 2) ELSE 1

C7_OneResponsePerTurn ==
    \A s \in Sessions :
        Running(s) =>
            /\ Responses(s) <= Allowed(s)
            /\ (pc[s] = "done" /\ obs[s].result = "returned") =>
                 Responses(s) = Allowed(s)

----------------------------------------------------------------------------
(* C8: a chain that is present stays present: the session's chain changes   *)
(* in no step but the installing step of a successful ingestion, which      *)
(* replaces it by the chain built from the uploaded file.                   *)
C8_ChainNeverCleared ==
    [][\A s \in Sessions :
         /\ user_session[s].chain # None => user_session'[s].chain # None
         /\ user_session'[s].chain # user_session[s].chain =>
              /\ pc[s] = "pf_update"
              /\ obs'[s].ingest = "ok"
              /\ user_session'[s].chain = local[s].chain]_vars

\* a session holding a chain went through a failed upload and a chat start,
\* and still holds it
C8_Witness ==
    \E s \in Sessions :
        /\ carry[s].failed /\ pc[s] = "idle"
        /\ user_session[s].chain # None

----------------------------------------------------------------------------
(* C9: the general history of a session only grows: every step leaves the   *)
(* old history a prefix of the new one; the model is called with the whole  *)
(* history of before the turn followed by the turn's redacted user text;    *)
(* and a session that has had no general-chat exchange has no history.      *)
C9_HistoryAccumulates ==
    /\ [][\A s \in Sessions :
            IsPrefix(History(user_session[s]), History(user_session'[s]))]_vars
    /\ [](\A s \in Sessions :
            /\ Did(s, "llm") =>
                 obs[s].llmInput =
                     History(obs[s].pre) \o
                     <<[role |-> "human",
                        content |-> anonymize_text(Content(s))]>>
            /\ (~carry[s].general /\ ~Did(s, "llm")) =>
                 user_session[s].general_history = None)

\* the model is called in a second general-chat turn, with the first turn's
\* exchange in front of the new question, while the other, connected session
\* has no history
C9_Witness ==
    \E s, t \in Sessions :
        /\ s # t /\ pc[t] = "idle"
        /\ user_session[t].general_history = None
        /\ pc[s] = "gc_llm"
        /\ Len(History(obs[s].pre)) = 2
        /\ Len(obs[s].llmInput) = 3
        /\ obs[s].llmInput[1].role = "human"
        /\ obs[s].llmInput[2].role = "ai"

----------------------------------------------------------------------------
(* C10: a step of one session's handler leaves the chain, the file name and *)
(* the general history of every other session unchanged, however the        *)
(* handlers of the sessions interleave.                                     *)
Acts(s) == pc'[s] # pc[s] \/ obs'[s] # obs[s] \/ message'[s] # message[s]

C10_SessionsIsolated ==
    [][\A s, t \in Sessions :
         (s # t /\ Acts(s)) => user_session'[t] = user_session[t]]_vars

\* two handlers are suspended at the same time, one about to install a chain
\* and one waiting for the model, each session holding only its own state
C10_Witness ==
    \E s, t \in Sessions :
        /\ s # t
        /\ pc[s] = "notice" /\ user_session[s].chain # None
        /\ user_session[s].general_history = None
        /\ pc[t] = "gc_llm" /\ user_session[t].chain = None
        /\ Len(History(user_session[t])) = 1

----------------------------------------------------------------------------
(* C11: the chain and the document name of a session are written together, *)
(* only by the step that ends a successful ingestion: in every reachable   *)
(* state, also after a turn was cancelled or raised at an await of the     *)
(* ingestion, either both keys are absent or file_name is the name of the  *)
(* file the stored chain was built from.                                   *)
ChainAndNameAgree(store) ==
    \/ store.chain = None /\ store.file_name = None
    \/ /\ store.chain # None
       /\ store.file_name = Some(store.chain[1].doc)

C11_ChainAndNameTogether ==
    /\ [](\A s \in Sessions : ChainAndNameAgree(user_session[s]))
    /\ [][\A s \in Sessions :
            (\/ user_session'[s].chain # user_session[s].chain
             \/ user_session'[s].file_name # user_session[s].file_name)
            => /\ pc[s] = "pf_update"
               /\ pc'[s] = "notice"
               /\ obs'[s].ingest = "ok"
               /\ user_session'[s].chain = local[s].chain
               /\ user_session'[s].file_name = Some(local[s].file[1].name)]_vars

\* the ingestion of b.txt was cancelled after its chain was built, while the
\* chain of a.txt was installed: the session still holds a.txt's chain and name
C11_Witness ==
    /\ pc[Solo] = "done"
    /\ obs[Solo].result = "cancelled"
    /\ local[Solo].chain # None
    /\ local[Solo].chain[1].doc = "b.txt"
    /\ user_session[Solo].chain # None
    /\ user_session[Solo].chain[1].doc = "a.txt"
    /\ user_session[Solo].file_name = Some("a.txt")

----------------------------------------------------------------------------
\* the handler of s returned after chain.acall returned res
Answered(s) ==
    /\ pc[s] = "done"
    /\ obs[s].result = "returned"
    /\ local[s].res # None

\* the message that carries the chain's answer
DocAnswer(s) == obs[s].out[Len(obs[s].out)]

EndsWith(t, p) ==
    Len(t) >= Len(p) /\ SubSeq(t, Len(t) - Len(p) + 1, Len(t)) = p

(* C13: when the document chain returns an answer with zero source         *)
(* documents, the text of the response ends with "No sources found".       *)
C13_NoSourcesSuffix ==
    \A s \in Sessions :
        (Answered(s) /\ local[s].res[1].source_documents = 0)
        => EndsWith(DocAnswer(s).content,
                    <<"N","o"," ","s","o","u","r","c","e","s"," ",
                      "f","o","u","n","d">>)

\* the labels source_0, source_1, ... written out
Labels == << <<"s","o","u","r","c","e","_","0">>,
             <<"s","o","u","r","c","e","_","1">>,
             <<"s","o","u","r","c","e","_","2">>,
             <<"s","o","u","r","c","e","_","3">> >>

RECURSIVE CommaList(_)
CommaList(n) ==
    IF n = 1 THEN Labels[1]
    ELSE CommaList(n - 1) \o <<",", " ">> \o Labels[n]

(* C14: when the document chain returns n >= 1 source documents, the text  *)
(* of the response is the redacted answer followed by a line               *)
(* "Sources: source_0, ..., source_(n-1)", and the response carries        *)
(* exactly n elements named source_0 .. source_(n-1), in that order, all   *)
(* different.                                                              *)
C14_SourcesSuffixAndElements ==
    \A s \in Sessions :
        (Answered(s) /\ local[s].res[1].source_documents >= 1)
        => LET n == local[s].res[1].source_documents
               m == DocAnswer(s)
           IN  /\ m.kind = "doc_answer"
               /\ m.content = anonymize_text(local[s].res[1].answer)
                               \o <<"\n","S","o","u","r","c","e","s",":"," ">>
                               \o CommaList(n)
               /\ Len(m.elements) = n
               /\ \A i \in 1..n : m.elements[i] = Labels[i]
               /\ \A i, j \in 1..n : i # j => m.elements[i] # m.elements[j]

\* an answer with two sources was shown, its digits redacted
C14_Witness ==
    /\ Answered(Solo)
    /\ local[Solo].res[1].source_documents = 2
    /\ ENABLE_PRESIDIO_PII_CLEANING
    /\ DocAnswer(Solo).content # local[Solo].res[1].answer
    /\ Len(DocAnswer(Solo).elements) = 2

----------------------------------------------------------------------------
\* run_web_search has returned or raised in the turn of s
Searched(s) == local[s].results # None

(* C15: once the search adapter has returned or raised for a non-empty     *)
(* query, the handler has returned normally and its message is determined  *)
(* by the outcome: "not configured" exactly for a missing credential, the  *)
(* generic failure naming the exception's type exactly for any other       *)
(* exception, "no results" exactly for an empty list, and the rendered     *)
(* results, one entry per result, exactly for a non-empty list; the        *)
(* progress message is replaced by it.                                     *)
C15_SearchNoticeByOutcome ==
    \A s \in Sessions :
        Searched(s) =>
            LET o == local[s].results[1]
                m == obs[s].out[Len(obs[s].out)]
            IN  /\ local[s].query # <<>>
                /\ pc[s] = "done"
                /\ obs[s].result = "returned"
                /\ ~SentKind(s, {"search_progress"})
                /\ m.kind \in SearchFinal \ {"search_usage"}
                /\ m.kind = "search_not_configured"
                     <=> o.exc = "TavilyNotConfiguredError"
                /\ m.kind = "search_failed"
                     <=> o.exc \notin {"none", "TavilyNotConfiguredError"}
                /\ m.kind = "search_failed" => m.name = o.exc
                /\ m.kind = "search_no_results"
                     <=> (o.exc = "none" /\ o.results = <<>>)
                /\ m.kind = "search_results"
                     <=> (o.exc = "none" /\ o.results # <<>>)
                /\ m.kind = "search_results"
                     => Len(m.elements) = Len(o.results)

\* a search whose adapter had no credential, after an upload in the same turn
C15_Witness ==
    /\ Searched(Solo)
    /\ local[Solo].results[1].exc = "TavilyNotConfiguredError"
    /\ SentKind(Solo, {"search_not_configured"})
    /\ SentKind(Solo, {"ingest_ok"})

\* the five ways to write a search command without a query
EmptyCommands == { <<"/","s","e","a","r","c","h">>,
                   <<"!","s","e","a","r","c","h">>,
                   <<"s","e","a","r","c","h",":">>,
                   <<"w","e","b",":">>,
                   <<"l","o","o","k","u","p",":">> }

(* C16: a search command without a query gets the usage help and nothing   *)
(* else: when its text has been classified the handler has returned, the   *)
(* only message besides ingestion notices is the usage help, the search    *)
(* adapter, the document chain and the language model were not called and  *)
(* no progress message was sent, with or without a chain in the session.   *)
C16_EmptyQueryUsageOnly ==
    \A s \in Sessions :
        (/\ Running(s)
         /\ Lower(Strip(Content(s))) \in EmptyCommands
         /\ Did(s, "classifier"))
        => /\ pc[s] = "done"
           /\ obs[s].result = "returned"
           /\ obs[s].out[Len(obs[s].out)] = Notice("search_usage", "")
           /\ \A i \in 1..(Len(obs[s].out) - 1) :
                 obs[s].out[i].kind \in IngestKinds
           /\ ~Did(s, "search") /\ ~Did(s, "chain") /\ ~Did(s, "llm")
           /\ user_session[s].general_history = obs[s].pre.general_history

\* "/search" alone was sent to a session that holds a chain
C16_Witness ==
    /\ Running(Solo)
    /\ Content(Solo) = T_search
    /\ Did(Solo, "classifier")
    /\ obs[Solo].pre.chain # None
    /\ SentKind(Solo, {"search_usage"})

----------------------------------------------------------------------------
\* the query the input carries: for the command token /search or !search
\* (the whole first token, any case) what follows the whitespace after it,
\* for a colon prefix the trimmed rest, otherwise none
CommandTokens == { <<"/","s","e","a","r","c","h">>,
                   <<"!","s","e","a","r","c","h">> }

ColonPrefixes == { <<"s","e","a","r","c","h",":">>,
                   <<"w","e","b",":">>,
                   <<"l","o","o","k","u","p",":">> }

QueryOf(text) ==
    LET trimmed == Strip(text)
        lower   == Lower(trimmed)
        token   == FirstToken(lower)
    IN  IF token \in CommandTokens
        THEN Some(LStrip(SubSeq(trimmed, Len(token) + 1, Len(trimmed))))
        ELSE IF \E p \in ColonPrefixes : StartsWith(lower, p)
        THEN LET p == CHOOSE q \in ColonPrefixes : StartsWith(lower, q)
             IN  Some(Strip(SubSeq(trimmed, Len(p) + 1, Len(trimmed))))
        ELSE None

(* C17: _extract_search_query returns a query exactly when the trimmed     *)
(* input, case ignored, is the token /search or !search alone or followed  *)
(* by whitespace and text, or begins with search:, web: or lookup:; for a  *)
(* token the query is what follows the whitespace after it (the empty text *)
(* if nothing follows), for a colon prefix the trimmed rest; for every     *)
(* other input the result is absent.                                       *)
C17_QueryExactly ==
    call.done => call.ret = QueryOf(call.arg)

----------------------------------------------------------------------------
\* a text in which the filter would find nothing
Redacted(text) == \A i \in 1..Len(text) : ~IsPii(text[i])

(* C18: with the filter enabled, every text of the user or of an external  *)
(* service that a handler displays or stores in the session has passed the *)
(* filter: the query echoed by the search messages, the titles, links and  *)
(* snippets of search results, the replies of the model and the entries of *)
(* the general history hold no personal data, and a displayed document     *)
(* answer begins with the filtered answer.                                 *)
C18_AllTextRedacted ==
    ENABLE_PRESIDIO_PII_CLEANING =>
      \A s \in Sessions :
        /\ \A i \in 1..Len(obs[s].out) :
             LET m == obs[s].out[i]
             IN  /\ m.kind \in {"search_progress", "search_no_results",
                                "chat_answer"}
                      => Redacted(m.content)
                 /\ m.kind = "search_results"
                      => \A k \in 1..Len(m.elements) :
                            /\ Redacted(m.elements[k].title)
                            /\ Redacted(m.elements[k].url)
                            /\ Redacted(m.elements[k].snippet)
                 /\ (m.kind = "doc_answer" /\ local[s].res # None)
                      => IsPrefix(anonymize_text(local[s].res[1].answer),
                                  m.content)
        /\ \A i \in 1..Len(History(user_session[s])) :
             Redacted(History(user_session[s])[i].content)

----------------------------------------------------------------------------
\* llm.ainvoke has returned a reply in the turn of s
Replied(s) ==
    /\ pc[s] = "done"
    /\ obs[s].result = "returned"
    /\ local[s].response # None

AllRedacted(history) ==
    \A i \in 1..Len(history) : Redacted(history[i].content)

(* C19: the text handed to the document chain, and the user message that   *)
(* is appended to the general history and sent to the language model, is   *)
(* anonymize_text of the user's text; the displayed document answer begins *)
(* with anonymize_text of the chain's answer, and the displayed reply and  *)
(* the reply appended to the history are anonymize_text of the model's     *)
(* reply.  With the filter enabled none of them holds personal data.       *)
C19_OnlyAnonymizedForwarded ==
    \A s \in Sessions :
      Running(s) =>
        /\ Did(s, "chain") =>
              /\ local[s].sanitized_input = anonymize_text(Content(s))
              /\ ENABLE_PRESIDIO_PII_CLEANING
                   => Redacted(local[s].sanitized_input)
        /\ Did(s, "llm") =>
              LET sent == obs[s].llmInput
              IN  /\ sent[Len(sent)] =
                       [role |-> "human",
                        content |-> anonymize_text(Content(s))]
                  /\ IsPrefix(sent, History(user_session[s]))
                  /\ ENABLE_PRESIDIO_PII_CLEANING => AllRedacted(sent)
        /\ Answered(s) =>
              /\ IsPrefix(anonymize_text(local[s].res[1].answer),
                          DocAnswer(s).content)
              /\ ENABLE_PRESIDIO_PII_CLEANING
                   => Redacted(SubSeq(DocAnswer(s).content, 1,
                         Len(anonymize_text(local[s].res[1].answer))))
        /\ Replied(s) =>
              LET history == History(user_session[s])
                  reply   == anonymize_text(local[s].response[1])
              IN  /\ obs[s].out[Len(obs[s].out)] =
                       Msg("chat_answer", "", reply, <<>>)
                  /\ history[Len(history)] =
                       [role |-> "ai", content |-> reply]
                  /\ ENABLE_PRESIDIO_PII_CLEANING => Redacted(reply)
        /\ ENABLE_PRESIDIO_PII_CLEANING
             => AllRedacted(History(user_session[s]))

\* a question with personal data was answered by the chain with personal
\* data, the filter enabled
C19_Witness ==
    /\ ENABLE_PRESIDIO_PII_CLEANING
    /\ Answered(Solo)
    /\ ~Redacted(Content(Solo))
    /\ ~Redacted(local[Solo].res[1].answer)
    /\ local[Solo].sanitized_input # Content(Solo)
    /\ DocAnswer(Solo).kind = "doc_answer"

----------------------------------------------------------------------------
\* the text of the turn of s has been classified and goes to general chat
GeneralTurn(s) ==
    /\ Running(s)
    /\ Did(s, "classifier")
    /\ ~IsSearch(Content(s))
    /\ user_session[s].chain = None

Calls(s, what) ==
    Cardinality({i \in 1..Len(obs[s].invoked) : obs[s].invoked[i] = what})

UserMessage(s) == [role |-> "human", content |-> anonymize_text(Content(s))]

(* C20: in a general-chat turn with non-blank text the filtered user text  *)
(* is appended to the session's history before the language model is       *)
(* invoked, the model is invoked once, with the whole history up to and    *)
(* including that message, and when it has replied the history is the      *)
(* history before the turn followed by that message and the filtered       *)
(* reply.  With empty or blank text the model is not called, the history   *)
(* is neither created nor changed, and the prompt for input is sent.       *)
C20_GeneralChatSteps ==
    \A s \in Sessions :
      GeneralTurn(s) =>
        LET before == History(obs[s].pre)
            now    == History(user_session[s])
        IN  /\ ~Blank(Content(s)) =>
                  /\ Calls(s, "llm") = 1
                  /\ obs[s].llmInput = before \o <<UserMessage(s)>>
                  /\ pc[s] = "gc_llm" => now = before \o <<UserMessage(s)>>
                  /\ Replied(s) =>
                        /\ now = before \o <<UserMessage(s),
                                   [role |-> "ai",
                                    content |->
                                      anonymize_text(local[s].response[1])]>>
                        /\ obs[s].out[Len(obs[s].out)].kind = "chat_answer"
            /\ Blank(Content(s)) =>
                  /\ Calls(s, "llm") = 0
                  /\ obs[s].llmInput = <<>>
                  /\ user_session[s].general_history =
                       obs[s].pre.general_history
                  /\ pc[s] = "done"
                  /\ obs[s].result = "returned"
                  /\ obs[s].out = <<Notice("chat_prompt", "")>>

\* the second general-chat turn of a session has been answered
C20_Witness ==
    /\ GeneralTurn(Solo)
    /\ Replied(Solo)
    /\ Len(History(obs[Solo].pre)) = 2
    /\ Len(History(user_session[Solo])) = 4

\* a blank text was sent to a session that has no history yet
C20_WitnessBlank ==
    /\ GeneralTurn(Solo)
    /\ Content(Solo) = T_blank
    /\ user_session[Solo].general_history = None
    /\ pc[Solo] = "done"

----------------------------------------------------------------------------
\* the text with every maximal run of personal data replaced by the tag,
\* read character by character from position i
RECURSIVE Tagged(_, _)
Tagged(x, i) ==
    IF i > Len(x) THEN <<>>
    ELSE IF ~IsPii(x[i]) THEN <<x[i]>> \o Tagged(x, i + 1)
    ELSE IF i > 1 /\ IsPii(x[i - 1]) THEN Tagged(x, i + 1)
    ELSE Placeholder \o Tagged(x, i + 1)

(* C21: anonymize_text(x) = x when cleaning is disabled, when x is empty   *)
(* and when nothing is detected in x; the text is changed only when        *)
(* cleaning is enabled and something is detected, and then every detected  *)
(* span, and nothing else, is replaced by the tag of its category.         *)
C21_PassThroughOrTagged ==
    call.done =>
      LET x == call.arg
          y == call.ret[1]
      IN  /\ ~ENABLE_PRESIDIO_PII_CLEANING => y = x
          /\ x = <<>> => y = x
          /\ Redacted(x) => y = x
          /\ y # x => ENABLE_PRESIDIO_PII_CLEANING /\ ~Redacted(x)
          /\ (ENABLE_PRESIDIO_PII_CLEANING /\ ~Redacted(x))
               => y = Tagged(x, 1) /\ y # x

\* a text with two separate spans was filtered
C21_Witness ==
    /\ call.done
    /\ ENABLE_PRESIDIO_PII_CLEANING
    /\ call.arg = <<"7", "a", "7">>
    /\ call.ret = Some(Placeholder \o <<"a">> \o Placeholder)

\* a text with personal data passed a disabled filter unchanged
C21_WitnessDisabled ==
    /\ call.done
    /\ ~ENABLE_PRESIDIO_PII_CLEANING
    /\ call.arg = <<"7", "7">>
    /\ call.ret = Some(call.arg)

----------------------------------------------------------------------------
\* the configured recognition engine could not be created at import
EngineFailed == analyzer = Some("default")

(* C23: if the recognition engine fails to initialise while cleaning is    *)
(* enabled, the filter is a pass-through: every later anonymize_text(x)    *)
(* returns x.                                                              *)
C23_InitFailurePassThrough ==
    (EngineFailed /\ call.done) => call.ret = Some(call.arg)

----------------------------------------------------------------------------
AnswerKinds == {"doc_answer", "chat_answer", "chat_prompt"}

(* C24: when chain.acall or llm.ainvoke raises in a turn, the handler does *)
(* not catch it: the handler has ended by raising that exception and no    *)
(* answer message was or is sent in that turn.                             *)
C24_GenerationFailurePropagates ==
    \A s \in Sessions :
        obs[s].error \in {"chain", "llm"} =>
            /\ pc[s] = "done"
            /\ obs[s].result = "raised"
            /\ ~SentKind(s, AnswerKinds \cup SearchFinal)
            /\ \A i \in 1..Len(obs[s].out) : obs[s].out[i].kind \in IngestKinds

\* the chain installed in this turn raised on the question sent with the file
C24_Witness ==
    /\ obs[Solo].error = "chain"
    /\ obs[Solo].ingest = "ok"
    /\ obs[Solo].result = "raised"
    /\ SentKind(Solo, {"ingest_ok"})

\* the language model raised in a general-chat turn
C24_WitnessModel ==
    /\ obs[Solo].error = "llm"
    /\ obs[Solo].result = "raised"
    /\ obs[Solo].out = <<>>

----------------------------------------------------------------------------
ValidUtf8(bytes) == \A i \in 1..Len(bytes) : bytes[i] # BadByte

(* C25: in both ingestion paths the splitter and the index are reached     *)
(* only with a file that decoded as UTF-8 and whose text is not empty      *)
(* after trimming: a file that is not UTF-8 ends in the decode error and   *)
(* an empty or whitespace-only file in the empty-content error.            *)
C25_OnlyDecodedNonEmptyIndexed ==
    call.done =>
      LET file == call.arg.file
      IN  /\ call.ret = Some("ok") =>
                /\ file.data # None
                /\ ValidUtf8(file.data[1])
                /\ ~Blank(file.data[1])
          /\ (file.data # None /\ ~ValidUtf8(file.data[1]))
               => call.ret = Some("decode")
          /\ (file.data # None /\ ValidUtf8(file.data[1])
                /\ Blank(file.data[1]))
               => call.ret = Some("empty")

----------------------------------------------------------------------------
\* the progress message of the turn's ingestion
Progress(s) == obs[s].out[1]

(* C26: in an attachment turn the processing notice is out before any      *)
(* ingestion work starts, the success or failure notice is sent only after *)
(* ingestion has ended, and the progress message is updated when ingestion *)
(* completes and also when it fails.                                       *)
C26_ProgressNoticeUpdated ==
    \A s \in Sessions :
        (Running(s) /\ Did(s, "ingest")) =>
            /\ Progress(s).kind \in {"processing", "processing_done",
                                     "processing_failed"}
            /\ pc[s] = "pf_read" =>
                  obs[s].out = <<Notice("processing", Progress(s).name)>>
            /\ SentKind(s, {"ingest_ok", "ingest_failed"}) =>
                  obs[s].ingest # "none"
            /\ SentKind(s, {"ingest_ok"}) =>
                  Progress(s).kind = "processing_done"
            /\ SentKind(s, {"ingest_failed"}) =>
                  Progress(s).kind = "processing_failed"

----------------------------------------------------------------------------
Elements(s) == message[s][1].elements

\* i is the position of the first file element of the message
IsFirstFile(s, i) ==
    /\ i \in 1..Len(Elements(s))
    /\ Elements(s)[i].type = "File"
    /\ \A j \in 1..(i - 1) : Elements(s)[j].type # "File"

ProgressNotices(s) ==
    Cardinality({i \in 1..Len(obs[s].out) :
                   obs[s].out[i].kind \in {"processing", "processing_done"}})

(* C27: a turn performs at most one ingestion, and it is that of the first *)
(* file element of the message in element order; elements that are not     *)
(* files and later file elements are not ingested, and a message whose     *)
(* elements hold no file is routed at once, like a message without         *)
(* attachments: no ingestion, no ingestion notice, its text classified.    *)
C27_FirstFileOnly ==
    \A s \in Sessions :
        Running(s) =>
            /\ Calls(s, "ingest") <= 1
            /\ ProgressNotices(s) <= 1
            /\ Did(s, "ingest") <=> HasFile(s)
            /\ HasFile(s) =>
                  \E i \in 1..Len(Elements(s)) :
                      /\ IsFirstFile(s, i)
                      /\ Progress(s).name = Elements(s)[i].name
                      /\ local[s].file # None => local[s].file[1] = Elements(s)[i]
                      /\ obs[s].ingest = "ok" =>
                            /\ user_session[s].file_name = Some(Elements(s)[i].name)
                            /\ user_session[s].chain[1].doc = Elements(s)[i].name
            /\ ~HasFile(s) =>
                  /\ obs[s].invoked[1] = "attachment"
                  /\ obs[s].invoked[2] = "classifier"
                  /\ obs[s].ingest = "none"
                  /\ \A i \in 1..Len(obs[s].out) :
                        obs[s].out[i].kind \notin IngestKinds
                  /\ user_session[s].chain = obs[s].pre.chain
                  /\ user_session[s].file_name = obs[s].pre.file_name

\* an image, an unreadable file and a readable file were sent together: the
\* unreadable file, the first file, was the one ingested, while the chain of
\* an earlier upload stays
C27_Witness ==
    /\ Running(Solo)
    /\ Elements(Solo) = <<E_image, F_gone, F_doc>>
    /\ obs[Solo].ingest = "read"
    /\ obs[Solo].pre.chain # None
    /\ pc[Solo] = "done"

\* a message whose only element is an image was answered by general chat
C27_WitnessNoFile ==
    /\ Running(Solo)
    /\ Elements(Solo) = <<E_image>>
    /\ SentKind(Solo, {"chat_answer"})

----------------------------------------------------------------------------
\* a history of complete exchanges: user message, reply, user message, ...
Exchanges(history) ==
    /\ Len(history) % 2 = 0
    /\ \A i \in 1..Len(history) :
          history[i].role = (IF i % 2 = 1 THEN "human" ELSE "ai")

(* C28: between the turns of a session its general history is a sequence  *)
(* of complete exchanges, user message then reply, also after turns whose  *)
(* language-model call failed: such a turn leaves the history as it was    *)
(* before the turn.                                                        *)
C28_HistoryOfExchanges ==
    \A s \in Sessions :
        /\ pc[s] = "idle" => Exchanges(History(user_session[s]))
        /\ obs[s].error = "llm" =>
              History(user_session[s]) = History(obs[s].pre)

(* C29: neither the document chain nor the language model is invoked with  *)
(* empty or whitespace-only user text: a blank message without a file is   *)
(* answered by the prompt for a question or a document and causes no       *)
(* generation call, with or without a chain in the session.                *)
C29_NoBlankGeneration ==
    \A s \in Sessions :
        Running(s) =>
            /\ (Did(s, "chain") \/ Did(s, "llm")) => ~Blank(Content(s))
            /\ (Blank(Content(s)) /\ ~HasFile(s)) =>
                  /\ obs[s].out = <<Notice("chat_prompt", "")>>
                  /\ obs[s].chainUsed = None
                  /\ obs[s].llmInput = <<>>

====
